---- MODULE Spec2Model ----
(***************************************************************************)
(* Model of Denue.py: the paginated download (obtener_datos), the keyword  *)
(* filter (filtrar_por_giro), the merge and the three writers              *)
(* (guardar_todos_formatos) and the orchestrator (main).                   *)
(*                                                                         *)
(* Every text value (id, nombre, clase_actividad) is a sequence of         *)
(* one-character strings, so that lower-casing, substring search and the   *)
(* CSV round trip are computed and not assumed.                            *)
(***************************************************************************)
EXTENDS Integers, Sequences, FiniteSets, TLC

\* ------------------------------------------------------------------ bounds
\* Number of executions of main() that are explored.
MaxEjecuciones == 2
\* Number of non-empty pages the remote source serves during one execution
\* (the source is finite).
MaxPaginas == 2
\* Number of entidades that are iterated (the program has 32).
NumEntidades == 2
\* Longest keyword list and longest table given to the filter on its own.
MaxPalabras == 2
MaxFilas == 2

\* --------------------------------------------------- program configuration
\* Page size, scaled down from 1000.
BLOQUE == 4
TIEMPO_ESPERA == 2
MAX_INTENTOS_VACIOS == 2
ESTRATOS == << <<"6">>, <<"7">> >>
Digitos == <<"0", "1", "2", "3", "4", "5", "6", "7", "8", "9">>
\* str(i).zfill(2)
Zfill2(i) == <<Digitos[(i \div 10) + 1], Digitos[(i % 10) + 1]>>
ENTIDADES == [i \in 1..NumEntidades |-> Zfill2(i)]
\* Keywords, abbreviated: "fa" stands for "farmaceutica", "la" for "laboratorio".
PALABRAS_CLAVE == << <<"f", "a">>, <<"l", "a">> >>

\* The (entidad, estrato) pairs in the order of the two nested for loops.
Combinaciones ==
    [k \in 1..(Len(ENTIDADES) * Len(ESTRATOS)) |->
        [entidad |-> ENTIDADES[((k - 1) \div Len(ESTRATOS)) + 1],
         estrato |-> ESTRATOS[((k - 1) % Len(ESTRATOS)) + 1]]]
NumCombinaciones == Len(Combinaciones)

\* ------------------------------------------------------------------- texts
\* str.lower() on one character.
LowerChar(c) ==
    CASE c = "F" -> "f"
      [] c = "A" -> "a"
      [] c = "L" -> "l"
      [] c = "X" -> "x"
      [] OTHER -> c

\* str.lower() on a text.
Lower(t) == [i \in 1..Len(t) |-> LowerChar(t[i])]

\* Python's  palabra in x  on texts: palabra occurs as a contiguous slice.
Contiene(x, palabra) ==
    \E i \in 0..(Len(x) - Len(palabra)) :
        \A j \in 1..Len(palabra) : x[i + j] = palabra[j]

\* Variant: the text is searched as it is, without lower-casing it.
CoincideGiro_SinLower(clase) ==
    \E p \in 1..Len(PALABRAS_CLAVE) : Contiene(clase, PALABRAS_CLAVE[p])

\* any(palabra in x for palabra in palabras), x being the lower-cased text:
\* the keywords are used as they are written.
CoincideCon(clase, palabras) ==
    LET x == Lower(clase)
    IN \E p \in 1..Len(palabras) : Contiene(x, palabras[p])

\* The lambda of filtrar_por_giro, applied to the lower-cased text.
CoincideGiro(clase) == CoincideCon(clase, PALABRAS_CLAVE)

\* df[filtro]: the rows whose clase_actividad passes, in order.
filtrar_por_giro(df) == SelectSeq(df, LAMBDA r : CoincideGiro(r.clase_actividad))

\* filtrar_por_giro with the module-level keyword list set to palabras.
filtrar_con(df, palabras) ==
    SelectSeq(df, LAMBDA r : CoincideCon(r.clase_actividad, palabras))

\* ------------------------------------------------------- the remote source
\* The records the simulated source can serve.  Two of them share an id and
\* differ in the other fields; one has an empty nombre.
Catalogo ==
    << [id |-> <<"1">>, clase_actividad |-> <<"F", "a">>, nombre |-> <<"a">>],
       [id |-> <<"2">>, clase_actividad |-> <<"x", "l", "a">>, nombre |-> <<>>],
       [id |-> <<"3">>, clase_actividad |-> <<"x", "f">>, nombre |-> <<"a">>],
       [id |-> <<"1">>, clase_actividad |-> <<"f", "a", "x">>, nombre |-> <<"b">>] >>

\* A page of n records: the catalogue read cyclically from position k.
Pagina(k, n) == [i \in 1..n |-> Catalogo[((k + i - 2) % Len(Catalogo)) + 1]]

\* The non-empty lists r.json() can be after a successful request: at most
\* BLOQUE records, served from the first or from the last record of the
\* catalogue, or the one record without a keyword alone.
PaginasNoVacias ==
    {Pagina(k, n) : k \in {1, Len(Catalogo)}, n \in 1..BLOQUE} \cup {Pagina(3, 1)}

\* One answer of the source to one request: ok = FALSE is the exception
\* branch of the try block (transport error, non-2xx, undecodable body).
Falla == [ok |-> FALSE, datos |-> <<>>]
Exito(datos) == [ok |-> TRUE, datos |-> datos]

\* ------------------------------------------------------------ obtener_datos
\* Variant: the window is one offset too long and overlaps the next one.
Fin_UnoMas(ini) == ini + BLOQUE

\* fin = inicio + BLOQUE - 1
Fin(ini) == ini + BLOQUE - 1

\* Variant: the page replaces what was accumulated.
Extender_Reemplaza(tot, datos) == datos

\* total.extend(datos)
Extender(tot, datos) == tot \o datos

\* Variant: the first empty answer ends the loop.
UmbralVacios_Uno(iv) == iv >= 1

\* Variant: empty answers never end the loop.
UmbralVacios_Nunca(iv) == FALSE

\* if intentos_vacios >= MAX_INTENTOS_VACIOS: break
UmbralVacios(iv) == iv >= MAX_INTENTOS_VACIOS

\* Variant: a full page ends the loop as well.
PaginaCorta_OLlena(datos) == Len(datos) <= BLOQUE

\* if len(datos) < BLOQUE: break
PaginaCorta(datos) == Len(datos) < BLOQUE

\* Variant: a non-empty answer leaves the counter as it is.
ReiniciarVacios_No(iv) == iv

\* intentos_vacios = 0 after a non-empty answer.
ReiniciarVacios(iv) == 0

\* The list obtener_datos returns when the request raises: break, return total.
TotalTrasError(tot) == tot

\* Variant: the exception is not caught and ends main().
DestinoTrasError_Aborta == "abortado"

\* Where control goes when the request raises: the except clause breaks out
\* of the loop and obtener_datos returns to main().
DestinoTrasError == "procesar"

\* ------------------------------------------------- guardar_todos_formatos
\* The missing value of pandas.
NaN == <<"NaN">>
\* Texts that read_csv turns into a missing value (part of its default list).
NA_VALUES == {<<>>, <<"N", "A">>}

CampoACsv(v) == IF v = NaN THEN <<>> ELSE v
CampoDeCsv(v) == IF v \in NA_VALUES THEN NaN ELSE v

\* df.to_csv(ARCHIVO_CSV, index=False): a missing value is written as an
\* empty field.
to_csv(df) ==
    [i \in 1..Len(df) |->
        [id |-> CampoACsv(df[i].id),
         clase_actividad |-> CampoACsv(df[i].clase_actividad),
         nombre |-> CampoACsv(df[i].nombre)]]

\* pd.read_csv(ARCHIVO_CSV, dtype=str): every field is kept as text, except
\* that the texts of NA_VALUES are read as missing.
read_csv(filas) ==
    [i \in 1..Len(filas) |->
        [id |-> CampoDeCsv(filas[i].id),
         clase_actividad |-> CampoDeCsv(filas[i].clase_actividad),
         nombre |-> CampoDeCsv(filas[i].nombre)]]

\* df.to_excel(ARCHIVO_XLSX, index=False): a missing value is an empty cell.
to_excel(df) == to_csv(df)

\* json.dump(df.to_dict(orient="records")): the values as they are in memory.
to_json(df) == df

RECURSIVE QuitarVistos(_, _)
QuitarVistos(df, vistos) ==
    IF df = <<>> THEN <<>>
    ELSE IF Head(df).id \in vistos
         THEN QuitarVistos(Tail(df), vistos)
         ELSE <<Head(df)>> \o QuitarVistos(Tail(df), vistos \cup {Head(df).id})

\* df.drop_duplicates(subset="id"): the first row of every id is kept.
drop_duplicates(df) == QuitarVistos(df, {})

\* The table that is written when no previous CSV exists: df_total = df.
SinPrevio(df) == df

\* Variant: the previous rows are not carried over.
ConPrevio_SoloNuevo(df_existente, df) == drop_duplicates(df)

\* The table that is written when a previous CSV exists.
ConPrevio(df_existente, df) == drop_duplicates(df_existente \o df)

\* pd.concat(lista, ignore_index=True)
RECURSIVE concat(_)
concat(lista) == IF lista = <<>> THEN <<>> ELSE Head(lista) \o concat(Tail(lista))

\* A file of the working directory.
Ausente == [existe |-> FALSE, legible |-> TRUE, filas |-> <<>>]
Archivo(filas) == [existe |-> TRUE, legible |-> TRUE, filas |-> filas]

Ids(df) == {df[i].id : i \in 1..Len(df)}

\* ------------------------------------------------------------------- state
VARIABLES
    pc,                  \* where the process is: "inactivo", "obtener",
                         \* "procesar", "fin", "terminado", "abortado"
    ejecuciones,         \* executions of main() started so far
    combo,               \* index in Combinaciones of the pair being handled
    registros_filtrados, \* main: the list of filtered tables
    total,               \* obtener_datos: the accumulated records
    inicio,              \* obtener_datos: first offset of the next window
    intentos_vacios,     \* obtener_datos: empty answers in a row
    dormido,             \* time.sleep has run since the last request
    csv, xlsx, json,     \* the three output files
    \* history, read by the properties only
    log,                 \* the answers to the requests of this obtener_datos call
    recibidos,           \* the non-empty pages received in this execution
    visitas,             \* calls of obtener_datos per pair, this execution
    fallos,              \* pairs whose pagination met a failed request, this execution
    guardados,           \* calls of guardar_todos_formatos, this execution
    previos,             \* the three files as main() found them
    idsFiltrados,        \* ids that passed the filter in any execution
    ultimoDf,            \* argument of the last completed guardar_todos_formatos
    filtro               \* the filter run on its own: keyword list, table, result

vars == <<pc, ejecuciones, combo, registros_filtrados, total, inicio,
          intentos_vacios, dormido, csv, xlsx, json, log, recibidos, visitas,
          fallos, guardados, previos, idsFiltrados, ultimoDf, filtro>>

archivos == <<csv, xlsx, json>>
paginador == <<total, inicio, intentos_vacios, log>>

\* Everything but the filter run on its own.
InitMain ==
    /\ pc = "inactivo"
    /\ ejecuciones = 0
    /\ combo = 0
    /\ registros_filtrados = <<>>
    /\ total = <<>>
    /\ inicio = 1
    /\ intentos_vacios = 0
    /\ dormido = FALSE
    /\ csv = Ausente
    /\ xlsx = Ausente
    /\ json = Ausente
    /\ log = <<>>
    /\ recibidos = <<>>
    /\ visitas = [k \in 1..NumCombinaciones |-> 0]
    /\ fallos = {}
    /\ guardados = 0
    /\ previos = <<Ausente, Ausente, Ausente>>
    /\ idsFiltrados = {}
    /\ ultimoDf = [hay |-> FALSE, df |-> <<>>]

Init ==
    /\ InitMain
    /\ filtro = [palabras |-> PALABRAS_CLAVE, df |-> <<>>, hecho |-> FALSE,
                 salida |-> <<>>]

\* The entry of obtener_datos for pair k: total = [], inicio = 1,
\* intentos_vacios = 0.
EntrarObtenerDatos(k) ==
    /\ combo' = k
    /\ total' = <<>>
    /\ inicio' = 1
    /\ intentos_vacios' = 0
    /\ log' = <<>>
    /\ visitas' = [visitas EXCEPT ![k] = @ + 1]
    /\ pc' = "obtener"

\* main() is started: registros_filtrados = [] and the first pair is entered.
Main_Inicio ==
    /\ pc \in {"inactivo", "terminado", "abortado"}
    /\ ejecuciones < MaxEjecuciones
    /\ ejecuciones' = ejecuciones + 1
    /\ registros_filtrados' = <<>>
    /\ recibidos' = <<>>
    /\ guardados' = 0
    /\ previos' = <<csv, xlsx, json>>
    /\ dormido' = FALSE
    /\ visitas' = [k \in 1..NumCombinaciones |-> IF k = 1 THEN 1 ELSE 0]
    /\ fallos' = {}
    /\ combo' = 1
    /\ total' = <<>>
    /\ inicio' = 1
    /\ intentos_vacios' = 0
    /\ log' = <<>>
    /\ pc' = "obtener"
    /\ UNCHANGED <<csv, xlsx, json, idsFiltrados, ultimoDf, filtro>>

\* One iteration of the while loop in which the request raises: break.
Obtener_Error ==
    /\ pc = "obtener"
    /\ log' = Append(log, [inicio |-> inicio, fin |-> Fin(inicio), resp |-> Falla])
    /\ total' = TotalTrasError(total)
    /\ pc' = DestinoTrasError
    /\ fallos' = fallos \cup {combo}
    /\ dormido' = FALSE
    /\ UNCHANGED <<ejecuciones, combo, registros_filtrados, inicio,
                   intentos_vacios, csv, xlsx, json, recibidos, visitas,
                   guardados, previos, idsFiltrados, ultimoDf, filtro>>

\* One iteration of the while loop in which the answer is an empty list.
Obtener_Vacio ==
    /\ pc = "obtener"
    /\ log' = Append(log, [inicio |-> inicio, fin |-> Fin(inicio), resp |-> Exito(<<>>)])
    /\ intentos_vacios' = intentos_vacios + 1
    /\ IF UmbralVacios(intentos_vacios')
       THEN /\ pc' = "procesar"
            /\ inicio' = inicio
            /\ dormido' = FALSE
       ELSE /\ pc' = "obtener"
            /\ inicio' = inicio + BLOQUE
            /\ dormido' = TRUE
    /\ UNCHANGED <<ejecuciones, combo, registros_filtrados, total, csv, xlsx,
                   json, recibidos, visitas, fallos, guardados, previos,
                   idsFiltrados, ultimoDf, filtro>>

\* One iteration of the while loop in which the answer holds records.  The
\* source serves at most MaxPaginas such answers per execution.
Obtener_Datos ==
    /\ pc = "obtener"
    /\ Len(recibidos) < MaxPaginas
    /\ \E datos \in PaginasNoVacias :
        /\ log' = Append(log, [inicio |-> inicio, fin |-> Fin(inicio), resp |-> Exito(datos)])
        /\ recibidos' = Append(recibidos, [combo |-> combo, inicio |-> inicio, datos |-> datos])
        /\ total' = Extender(total, datos)
        /\ intentos_vacios' = ReiniciarVacios(intentos_vacios)
        /\ IF PaginaCorta(datos)
           THEN /\ pc' = "procesar"
                /\ inicio' = inicio
                /\ dormido' = FALSE
           ELSE /\ pc' = "obtener"
                /\ inicio' = inicio + BLOQUE
                /\ dormido' = TRUE
    /\ UNCHANGED <<ejecuciones, combo, registros_filtrados, csv, xlsx, json,
                   visitas, fallos, guardados, previos, idsFiltrados, ultimoDf,
                   filtro>>

\* Variant: the filtered table is collected even when it is empty.
TrasFiltrar_SinComprobar(lista, datos) ==
    IF datos = <<>> THEN lista ELSE Append(lista, filtrar_por_giro(datos))

\* The list of filtered tables after the body of the for loop has handled
\* what obtener_datos returned.
TrasFiltrar(lista, datos) ==
    IF datos = <<>> THEN lista
    ELSE IF filtrar_por_giro(datos) = <<>> THEN lista
         ELSE Append(lista, filtrar_por_giro(datos))

\* obtener_datos has returned: the rest of the body of the for loop, and the
\* step to the next pair or out of the loops.
Main_Procesar ==
    /\ pc = "procesar"
    /\ registros_filtrados' = TrasFiltrar(registros_filtrados, total)
    /\ idsFiltrados' = idsFiltrados \cup Ids(filtrar_por_giro(total))
    /\ IF combo < NumCombinaciones
       THEN EntrarObtenerDatos(combo + 1)
       ELSE /\ pc' = "fin"
            /\ UNCHANGED <<combo, total, inicio, intentos_vacios, log, visitas>>
    /\ UNCHANGED <<ejecuciones, dormido, csv, xlsx, json, recibidos, fallos,
                   guardados, previos, ultimoDf, filtro>>

\* The table guardar_todos_formatos writes for the argument df.
df_total(df) ==
    IF csv.existe THEN ConPrevio(read_csv(csv.filas), df) ELSE SinPrevio(df)

\* Variant: the JSON file is written from the argument, not from the merge.
guardar_todos_formatos_JsonDeDf(df) ==
    /\ guardados' = guardados + 1
    /\ IF csv.existe /\ ~csv.legible
       THEN /\ pc' = "abortado"
            /\ UNCHANGED <<csv, xlsx, json, ultimoDf>>
       ELSE /\ csv' = Archivo(to_csv(df_total(df)))
            /\ xlsx' = Archivo(to_excel(df_total(df)))
            /\ json' = Archivo(to_json(df))
            /\ ultimoDf' = [hay |-> TRUE, df |-> df]
            /\ pc' = "terminado"

\* guardar_todos_formatos(df): reading an unreadable CSV raises, and nothing
\* in main() catches it.
guardar_todos_formatos(df) ==
    /\ guardados' = guardados + 1
    /\ IF csv.existe /\ ~csv.legible
       THEN /\ pc' = "abortado"
            /\ UNCHANGED <<csv, xlsx, json, ultimoDf>>
       ELSE /\ csv' = Archivo(to_csv(df_total(df)))
            /\ xlsx' = Archivo(to_excel(df_total(df)))
            /\ json' = Archivo(to_json(df_total(df)))
            /\ ultimoDf' = [hay |-> TRUE, df |-> df]
            /\ pc' = "terminado"

\* Variant: the files are written even when nothing was collected.
HayResultados_Siempre(lista) == TRUE

\* if registros_filtrados:
HayResultados(lista) == lista # <<>>

\* After the loops: if registros_filtrados: concat and save, else print.
Main_Fin ==
    /\ pc = "fin"
    /\ IF HayResultados(registros_filtrados)
       THEN guardar_todos_formatos(concat(registros_filtrados))
       ELSE /\ pc' = "terminado"
            /\ UNCHANGED <<csv, xlsx, json, guardados, ultimoDf>>
    /\ UNCHANGED <<ejecuciones, combo, registros_filtrados, total, inicio,
                   intentos_vacios, dormido, log, recibidos, visitas, fallos,
                   previos, idsFiltrados, filtro>>

\* The environment: between two executions the previous CSV becomes
\* unreadable (truncated, wrong encoding, permissions).
CorromperCSV ==
    /\ pc \in {"inactivo", "terminado"}
    /\ csv.existe /\ csv.legible
    /\ ejecuciones < MaxEjecuciones
    /\ csv' = [csv EXCEPT !.legible = FALSE]
    /\ UNCHANGED <<pc, ejecuciones, combo, registros_filtrados, total, inicio,
                   intentos_vacios, dormido, xlsx, json, log, recibidos,
                   visitas, fallos, guardados, previos, idsFiltrados, ultimoDf,
                   filtro>>

Next ==
    \/ Main_Inicio
    \/ Obtener_Error
    \/ Obtener_Vacio
    \/ Obtener_Datos
    \/ Main_Procesar
    \/ Main_Fin

Spec == Init /\ [][Next]_vars

NextFS == Next \/ CorromperCSV

\* The same program in a directory whose files can be damaged between runs.
SpecFS == Init /\ [][NextFS]_vars

\* ------------------------------------------------ the filter on its own
\* Keywords a configuration can hold: lower-case ones and one written with
\* an upper-case letter.
PalabrasPosibles == {<<"f", "a">>, <<"l", "a">>, <<"F", "a">>}

RECURSIVE SeqHasta(_, _)
\* The sequences of at most n elements of S.
SeqHasta(S, n) ==
    IF n = 0 THEN {<<>>}
    ELSE SeqHasta(S, n - 1) \cup
         {Append(q, x) : q \in {r \in SeqHasta(S, n - 1) : Len(r) = n - 1}, x \in S}

\* filtrar_por_giro is about to be called with any keyword list and any table.
InitFiltro ==
    /\ InitMain
    /\ \E palabras \in SeqHasta(PalabrasPosibles, MaxPalabras) :
       \E df \in SeqHasta({Catalogo[i] : i \in 1..Len(Catalogo)}, MaxFilas) :
          filtro = [palabras |-> palabras, df |-> df, hecho |-> FALSE,
                    salida |-> <<>>]

\* The call of filtrar_por_giro(df).
Filtrar ==
    /\ ~filtro.hecho
    /\ filtro' = [filtro EXCEPT !.hecho = TRUE,
                                !.salida = filtrar_con(filtro.df, filtro.palabras)]
    /\ UNCHANGED <<pc, ejecuciones, combo, registros_filtrados, total, inicio,
                   intentos_vacios, dormido, csv, xlsx, json, log, recibidos,
                   visitas, fallos, guardados, previos, idsFiltrados, ultimoDf>>

NextFiltro == Filtrar

SpecFiltro == InitFiltro /\ [][NextFiltro]_vars

\* ============================================================== properties
\* The records of the answers in a log, in arrival order.
RECURSIVE DatosDe(_)
DatosDe(l) == IF l = <<>> THEN <<>> ELSE Head(l).resp.datos \o DatosDe(Tail(l))

\* The records of the non-empty pages of an execution, in arrival order.
RECURSIVE DatosRecibidos(_)
DatosRecibidos(rs) == IF rs = <<>> THEN <<>> ELSE Head(rs).datos \o DatosRecibidos(Tail(rs))

EsLlena(e) == e.resp.ok /\ Len(e.resp.datos) = BLOQUE
EsVacia(e) == e.resp.ok /\ e.resp.datos = <<>>
EsFalla(e) == ~e.resp.ok
NoVacias(l) == Cardinality({i \in 1..Len(l) : l[i].resp.ok /\ l[i].resp.datos # <<>>})

SinRepetidos(filas) ==
    \A i, j \in 1..Len(filas) : i # j => filas[i].id # filas[j].id

\* C1: the persisted dataset never holds two records with the same id,
\* whether or not a CSV existed before and whatever the filtered input was.
C1_SinIdsRepetidos == csv.existe => SinRepetidos(csv.filas)

\* C2 as stated: a full first window and an empty second window make
\* obtener_datos return after exactly 2 requests with the first page.
C2_DosPeticiones ==
    (pc = "procesar" /\ Len(log) >= 2 /\ EsLlena(log[1]) /\ EsVacia(log[2]))
        => (Len(log) = 2 /\ total = log[1].resp.datos)

\* C2 amended: after a full first window and an empty second window a third
\* request is always issued; when the third window is empty as well,
\* obtener_datos has issued exactly 3 requests and returns exactly the first
\* page's records.
C2_TresPeticiones ==
    /\ (pc = "procesar" /\ Len(log) >= 2 /\ EsLlena(log[1]) /\ EsVacia(log[2]))
          => Len(log) >= 3
    /\ (pc = "procesar" /\ Len(log) >= 3 /\ EsLlena(log[1]) /\ EsVacia(log[2])
          /\ EsVacia(log[3]))
          => (Len(log) = 3 /\ total = log[1].resp.datos)

C2_Testigo ==
    /\ pc = "procesar"
    /\ Len(log) = 3
    /\ EsLlena(log[1]) /\ EsVacia(log[2]) /\ EsVacia(log[3])
    /\ Len(total) = BLOQUE

\* C3: a call of guardar_todos_formatos with the argument of the previous
\* call, reading the CSV that call wrote, leaves the number of persisted
\* records as it was.
C3_Idempotente ==
    [][(/\ pc = "fin"
        /\ HayResultados(registros_filtrados)
        /\ ultimoDf.hay
        /\ concat(registros_filtrados) = ultimoDf.df
        /\ csv.existe /\ csv.legible)
         => Len(csv'.filas) = Len(csv.filas)]_vars

\* C4: the number of requests of one obtener_datos call is bounded by the
\* number of non-empty pages the source has served to it: at most
\* MAX_INTENTOS_VACIOS requests per non-empty page, plus MAX_INTENTOS_VACIOS.
\* The source serves finitely many non-empty pages, so the loop ends.
C4_PeticionesAcotadas ==
    /\ Len(log) <= (NoVacias(log) + 1) * MAX_INTENTOS_VACIOS
    /\ Len(log) <= (MaxPaginas + 1) * MAX_INTENTOS_VACIOS
    /\ (pc = "obtener" => Len(log) < (NoVacias(log) + 1) * MAX_INTENTOS_VACIOS)

C4_Testigo ==
    /\ pc = "procesar"
    /\ NoVacias(log) = MaxPaginas
    /\ Len(log) = (MaxPaginas + 1) * MAX_INTENTOS_VACIOS

\* C5: during the loop and at its return, total is the concatenation, in
\* arrival order, of the pages received so far in this call, however the
\* loop stops.
C5_TotalEsLoRecibido ==
    pc \in {"obtener", "procesar"} => total = DatosDe(log)

C5_Testigo ==
    /\ pc = "procesar"
    /\ Len(log) >= 3
    /\ EsFalla(log[Len(log)])
    /\ NoVacias(log) = 2

\* inicio grows from one request of the log to the next: no window is asked
\* for twice.
SinReintento(l) ==
    /\ \A i \in 1..Len(l) : EsFalla(l[i]) => i = Len(l)
    /\ \A i, j \in 1..Len(l) : i < j => l[i].inicio < l[j].inicio

C7_ExactamenteUna == pc = "terminado" => guardados = 1

\* C7 amended: guardar_todos_formatos is called at most once per execution,
\* exactly once when at least one record passed the filter and not at all
\* otherwise, and only after every pair has been paginated and filtered.
C7_ALoMasUna ==
    /\ guardados <= 1
    /\ (guardados = 1 =>
          /\ pc \in {"terminado", "abortado"}
          /\ \A k \in 1..NumCombinaciones : visitas[k] = 1
          /\ registros_filtrados # <<>>)
    /\ (pc = "terminado" =>
          guardados = IF filtrar_por_giro(DatosRecibidos(recibidos)) # <<>> THEN 1 ELSE 0)

C7_Testigo ==
    /\ pc = "terminado"
    /\ guardados = 1
    /\ Len(registros_filtrados) >= 2

\* C8: when the previous CSV exists and cannot be read, the call still
\* writes the records of this execution to the three files and main ends
\* normally.
C8_RecuperaCsvIlegible ==
    [][(/\ pc = "fin"
        /\ HayResultados(registros_filtrados)
        /\ csv.existe /\ ~csv.legible)
         => (/\ pc' = "terminado"
             /\ csv' = Archivo(to_csv(concat(registros_filtrados)))
             /\ xlsx' = Archivo(to_excel(concat(registros_filtrados)))
             /\ json' = Archivo(to_json(concat(registros_filtrados))))]_vars

\* C9: between executions, the ids of the persisted dataset are exactly the
\* ids that passed the filter in any execution so far.
C9_IdsSonLaUnion ==
    pc \in {"inactivo", "terminado"} => Ids(csv.filas) = idsFiltrados

C9_Testigo ==
    /\ pc = "terminado"
    /\ ejecuciones = 2
    /\ guardados = 1
    /\ previos[1].existe
    /\ Ids(previos[1].filas) \ Ids(concat(registros_filtrados)) # {}
    /\ Ids(csv.filas) = Ids(previos[1].filas)

\* The page of the scenario: 3 records, of which the first two hold a keyword.
Pagina3 == Pagina(1, 3)
Esperados == <<Catalogo[1], Catalogo[2]>>
SoloPagina3 ==
    /\ Len(recibidos) = 1
    /\ recibidos[1].inicio = 1
    /\ recibidos[1].datos = Pagina3

\* C10: with no previous file, when the only records of the execution are a
\* first page of 3 records, 2 of them with a keyword, obtener_datos returns
\* the 3, the filter keeps the 2, and the files hold exactly the 2.
C10_Escenario ==
    /\ (pc = "procesar" /\ Len(log) >= 1 /\ log[1].resp = Exito(Pagina3))
          => (total = Pagina3 /\ Len(log) = 1)
    /\ (SoloPagina3 /\ (pc \in {"fin", "terminado"} \/ combo > recibidos[1].combo))
          => registros_filtrados = <<Esperados>>
    /\ (SoloPagina3 /\ pc = "terminado" /\ ~previos[1].existe)
          => (/\ csv = Archivo(Esperados)
              /\ xlsx = Archivo(Esperados)
              /\ json = Archivo(Esperados))

C10_Testigo ==
    /\ pc = "terminado"
    /\ SoloPagina3
    /\ ~previos[1].existe
    /\ Len(csv.filas) = 2

\* C11: filtrar_por_giro returns exactly the rows whose clase_actividad
\* holds at least one keyword when both are compared without regard to case;
\* with no keyword, no row.
C11_FiltroSinDistinguirCaja ==
    filtro.hecho =>
        filtro.salida =
            SelectSeq(filtro.df,
                      LAMBDA r : \E p \in 1..Len(filtro.palabras) :
                          Contiene(Lower(r.clase_actividad), Lower(filtro.palabras[p])))

\* The rows of a file with every missing value shown as the empty text.
CampoComoTexto(v) == IF v = NaN THEN <<>> ELSE v
ComoTexto(filas) ==
    [i \in 1..Len(filas) |->
        [id |-> CampoComoTexto(filas[i].id),
         clase_actividad |-> CampoComoTexto(filas[i].clase_actividad),
         nombre |-> CampoComoTexto(filas[i].nombre)]]

\* C12: the three files exist together and hold the same rows and columns in
\* the same order; a missing value, which the JSON file spells NaN and the
\* other two leave empty, is the only difference of encoding.
C12_MismosRegistros ==
    /\ xlsx.existe = csv.existe
    /\ json.existe = csv.existe
    /\ ComoTexto(xlsx.filas) = ComoTexto(csv.filas)
    /\ ComoTexto(json.filas) = ComoTexto(csv.filas)

C12_Testigo ==
    /\ pc = "terminado"
    /\ ejecuciones = 2
    /\ guardados = 1
    /\ previos[1].existe
    /\ Len(csv.filas) >= 2
    /\ json.filas # csv.filas

\* C13: the k-th request of a call asks for [1 + (k-1)*BLOQUE, k*BLOQUE], and
\* the next one, if any, starts right after the last one asked for.
C13_Ventanas ==
    /\ \A k \in 1..Len(log) :
          /\ log[k].inicio = 1 + (k - 1) * BLOQUE
          /\ log[k].fin = k * BLOQUE
    /\ (pc = "obtener" => inicio = 1 + Len(log) * BLOQUE)

C13_Testigo ==
    /\ pc = "obtener"
    /\ Len(log) = 3
    /\ EsLlena(log[1]) /\ EsVacia(log[2]) /\ EsLlena(log[3])
    /\ inicio = 1 + 3 * BLOQUE

\* The number of empty answers at the end of a log.
VaciasFinales(l) ==
    CHOOSE n \in 0..Len(l) :
        /\ \A i \in (Len(l) - n + 1)..Len(l) : EsVacia(l[i])
        /\ (n = Len(l) \/ ~EsVacia(l[Len(l) - n]))

\* C14: whenever a request can be issued the counter is the number of empty
\* answers in a row just received and is below MAX_INTENTOS_VACIOS; the loop
\* has stopped on an empty answer exactly when the last MAX_INTENTOS_VACIOS
\* answers were empty; after a full page the loop goes on with the counter 0.
C14_VaciosSeguidos ==
    /\ (pc = "obtener" =>
          /\ intentos_vacios = VaciasFinales(log)
          /\ intentos_vacios < MAX_INTENTOS_VACIOS)
    /\ (pc # "obtener" /\ Len(log) >= 1 /\ EsVacia(log[Len(log)])
          => VaciasFinales(log) = MAX_INTENTOS_VACIOS)
    /\ (VaciasFinales(log) >= MAX_INTENTOS_VACIOS => pc # "obtener")
    /\ (Len(log) >= 1 /\ EsLlena(log[Len(log)])
          => (pc = "obtener" /\ intentos_vacios = 0))

C14_Testigo ==
    /\ pc = "procesar"
    /\ Len(log) = 4
    /\ EsVacia(log[1]) /\ EsLlena(log[2]) /\ EsVacia(log[3]) /\ EsVacia(log[4])
    /\ Len(total) = BLOQUE

EsCorta(e) == e.resp.ok /\ e.resp.datos # <<>> /\ Len(e.resp.datos) < BLOQUE

\* C15: a non-empty answer of fewer than BLOQUE records is appended and is the
\* last request of the call, with no advance of inicio and no sleep after
\* it; an answer of exactly BLOQUE records is followed by a sleep and leaves
\* the loop running.
C15_PaginaCortaTermina ==
    /\ \A i \in 1..Len(log) : EsCorta(log[i]) => i = Len(log)
    /\ (Len(log) >= 1 /\ EsCorta(log[Len(log)]) =>
          /\ pc # "obtener"
          /\ ~dormido
          /\ inicio = log[Len(log)].inicio
          /\ total = DatosDe(log))
    /\ (Len(log) >= 1 /\ EsLlena(log[Len(log)]) =>
          /\ pc = "obtener"
          /\ dormido)

C15_Testigo ==
    /\ pc = "procesar"
    /\ Len(log) = 2
    /\ EsLlena(log[1]) /\ EsCorta(log[2])
    /\ Len(total) > BLOQUE
    /\ ~dormido

\* C16: every request but the first of the execution is issued after a sleep
\* that followed the previous request, also from one pair to the next.
C16_EsperaEntrePeticiones ==
    [][(/\ pc = "obtener"
        /\ Len(log') = Len(log) + 1
        /\ ~(combo = 1 /\ log = <<>>))
         => dormido]_vars

\* The first row with the given id.
PrimeroConId(filas, id) ==
    filas[CHOOSE i \in 1..Len(filas) :
            /\ filas[i].id = id
            /\ \A j \in 1..(i - 1) : filas[j].id # id]

\* The rows as they arrived: the previous CSV, then this execution's.
EnOrdenDeLlegada == previos[1].filas \o ComoTexto(concat(registros_filtrados))

\* C17: after a merge every id has one row in the dataset, the first that was
\* seen: the previously persisted one if there is one, else the earliest of
\* this execution.
C17_PrimeroGana ==
    (pc = "terminado" /\ guardados = 1) =>
        \A id \in Ids(EnOrdenDeLlegada) :
            /\ Cardinality({i \in 1..Len(csv.filas) : csv.filas[i].id = id}) = 1
            /\ PrimeroConId(csv.filas, id) = PrimeroConId(EnOrdenDeLlegada, id)

\* C18: while main runs, and after it when no received record passed the
\* filter, guardar_todos_formatos has not been called and the three files
\* are as main found them.
C18_SinResultadosNoEscribe ==
    /\ (pc \in {"obtener", "procesar", "fin"} =>
          (guardados = 0 /\ <<csv, xlsx, json>> = previos))
    /\ (pc = "terminado" /\ filtrar_por_giro(DatosRecibidos(recibidos)) = <<>> =>
          (guardados = 0 /\ <<csv, xlsx, json>> = previos))

C18_Testigo ==
    /\ pc = "terminado"
    /\ ejecuciones = 2
    /\ previos[1].existe
    /\ recibidos # <<>>
    /\ fallos # {}
    /\ filtrar_por_giro(DatosRecibidos(recibidos)) = <<>>
    /\ csv = previos[1]

====
